---- MODULE Spec2Model ----
(***************************************************************************)
(* State-machine model of the Home component of src/app/page.tsx: the      *)
(* account-load effect (loadUserData, fetchBalance, fetchUserInfo), the    *)
(* manual balance refresh, and the two gasless transaction senders         *)
(* (executeTxNative, executeTxEthers).                                     *)
(*                                                                         *)
(* The page is single-threaded: every action below is one run of the       *)
(* event loop, from an event (a click, a hook value changing, an SDK       *)
(* promise settling) to the next await of the handler it runs.  The SDK    *)
(* calls are the environment: each pending call settles, when it settles,  *)
(* with an outcome drawn from the outcomes its interface allows.           *)
(***************************************************************************)
EXTENDS Integers, Sequences, FiniteSets, Bags, TLC

(* ---------------------------------------------------------------------- *)
(* Bounds of the model                                                     *)
(* ---------------------------------------------------------------------- *)

\* Number of account fetches (loadUserData runs past the guard, manual
\* refreshes) that may be pending at once.
MaxFetches == 2

\* Number of send calls (executeTxNative / executeTxEthers) a behaviour may
\* start.
MaxSends == 3

(* ---------------------------------------------------------------------- *)
(* Values                                                                  *)
(* ---------------------------------------------------------------------- *)

\* JavaScript null (useState<... | null>(null)).
Null == "<null>"

\* A hook that returns no object: useSmartAccount() without a handle,
\* usePublicClient() without a client.
Undefined == "<undefined>"

\* Smart-account handles, and the address getAddress() resolves to when it
\* resolves.
SmartAccounts == {"sa1", "sa2"}
AddressOf(sa) == IF sa = "sa1" THEN "0xA1" ELSE "0xA2"

Chains == {"chain1", "chain2"}

\* What getUserInfo() can do when fetchUserInfo calls it: it is no function,
\* it throws, it returns null/undefined, it returns a profile.
Infos == {"infoA"}
UserInfoOutcomes == {"notFunction", "throws", "empty"} \cup Infos

\* Transaction hashes sendUserOperation or a receipt can carry.
Hashes == {"0xh1", "0xh2"}

\* What sendUserOperation resolves with, and the hash of a receipt: a hash,
\* null (also: no receipt) or an empty string.
SubmitResults == Hashes \cup {Null, ""}

\* What getFeeQuotes resolves with: undefined, a result without the
\* verifyingPaymasterGasless variant, a variant lacking userOp or userOpHash,
\* or the full variant.
QuoteResults == {"undefined", "noVariant", "noUserOp", "noUserOpHash", "full"}

(* ---------------------------------------------------------------------- *)
(* Text: decimal strings as sequences of one-character strings             *)
(* ---------------------------------------------------------------------- *)

DigitChar(d) == <<"0", "1", "2", "3", "4", "5", "6", "7", "8", "9">>[d + 1]

RECURSIVE Str(_)
\* The string a sequence of characters spells.
Str(cs) == IF cs = <<>> THEN "" ELSE Head(cs) \o Str(Tail(cs))

RECURSIVE Zeros(_)
Zeros(n) == IF n <= 0 THEN <<>> ELSE <<"0">> \o Zeros(n - 1)

RECURSIVE StripTrailingZeros(_)
StripTrailingZeros(cs) ==
    IF cs # <<>> /\ cs[Len(cs)] = "0"
    THEN StripTrailingZeros(SubSeq(cs, 1, Len(cs) - 1))
    ELSE cs

\* Index of the first "." of cs, or 0.
DotAt(cs) ==
    LET at == {i \in 1..Len(cs) : cs[i] = "."}
    IN  IF at = {} THEN 0 ELSE CHOOSE i \in at : \A j \in at : i <= j

\* viem's etherUnits.wei.
EtherDecimals == 18

\* viem formatEther(value) = formatUnits(value, 18) of a non-negative bigint,
\* given by its decimal digits: pad to 18 digits, split, strip the
\* fraction's trailing zeros.
FormatEther(digits) ==
    LET display  == [i \in 1..Len(digits) |-> DigitChar(digits[i])]
        padded   == Zeros(EtherDecimals - Len(display)) \o display
        cut      == Len(padded) - EtherDecimals
        integer  == SubSeq(padded, 1, cut)
        fraction == StripTrailingZeros(SubSeq(padded, cut + 1, Len(padded)))
    IN  (IF integer = <<>> THEN <<"0">> ELSE integer)
        \o (IF fraction = <<>> THEN <<>> ELSE <<".">> \o fraction)

\* Number of decimals formatBalance keeps.
FormatPrecision == 2

\* formatBalance of @/utils/utils: the decimal text at a fixed precision.
FormatBalance(cs) ==
    LET dot      == DotAt(cs)
        integer  == IF dot = 0 THEN cs ELSE SubSeq(cs, 1, dot - 1)
        fraction == IF dot = 0 THEN <<>> ELSE SubSeq(cs, dot + 1, Len(cs))
        fixed    == SubSeq(fraction \o Zeros(FormatPrecision), 1, FormatPrecision)
    IN  integer \o <<".">> \o fixed

\* A bigint is falsy exactly when it is 0n.
Truthy(digits) == digits # <<0>>

\* The balance (in wei, as decimal digits) a chain holds for an address.
ChainBalance(address, chain) ==
    CASE address = "0xA1" /\ chain = "chain1" -> <<1, 5>> \o [i \in 1..17 |-> 0]
      [] address = "0xA1" /\ chain = "chain2" -> <<0>>
      [] address = "0xA2" /\ chain = "chain1" -> <<2, 5>> \o [i \in 1..16 |-> 0]
      [] address = "0xA2" /\ chain = "chain2" -> <<3>> \o [i \in 1..18 |-> 0]
      [] OTHER -> <<0>>

\* A zero balance stored as null instead of the formatted "0.0".
BalanceText_NullOnZero(balanceResponse) ==
    IF Truthy(balanceResponse)
    THEN Str(FormatBalance(FormatEther(balanceResponse)))
    ELSE Null

\* Lines 75-78: what fetchBalance stores for a resolved balanceResponse.
BalanceText(balanceResponse) ==
    LET balanceInEther == IF Truthy(balanceResponse)
                          THEN FormatEther(balanceResponse)
                          ELSE <<"0", ".", "0">>
    IN  Str(FormatBalance(balanceInEther))

\* What a getBalance that resolves makes fetchBalance store, by the address
\* asked for and the chain the client reads.
Resolved ==
    [address \in {"", "0xA1", "0xA2"}, chain \in Chains |->
        BalanceText(ChainBalance(address, chain))]

\* The fallback passed through formatBalance like a fetched balance.
BalanceFallback_Formatted == Str(FormatBalance(<<"0", ".", "0">>))

\* Line 81: what fetchBalance stores when getBalance fails.
BalanceFallback == "0.0"

(* ---------------------------------------------------------------------- *)
(* State                                                                   *)
(* ---------------------------------------------------------------------- *)

VARIABLES
    isConnected,       \* useAccount().isConnected
    smartAccount,      \* useSmartAccount(): Undefined or a handle
    chainId,           \* useAccount().chainId
    publicClient,      \* usePublicClient(): Undefined or the chain it reads
    userAddress,       \* useState<string>("")
    userInfo,          \* useState<Record | null>(null)
    balance,           \* useState<string | null>(null)
    recipientAddress,  \* useState<string>("")
    isSending,         \* useState<boolean>(false)
    transactionHash,   \* useState<string | null>(null)
    fetches,           \* bag of the pending loadUserData / fetchBalance calls
    sends,             \* bag of the SDK calls the running senders await
    outcome            \* how the last finished send ended (what it logged)

hooks == <<isConnected, smartAccount, chainId, publicClient>>
accountState == <<userAddress, userInfo, balance>>
sendState == <<recipientAddress, isSending, transactionHash, sends, outcome>>
vars == <<isConnected, smartAccount, chainId, publicClient, userAddress, userInfo,
          balance, recipientAddress, isSending, transactionHash, fetches, sends,
          outcome>>

\* A pending loadUserData awaiting getAddress: what its closure captured.
AddressCall(account, client) ==
    [pc |-> "getAddress", sa |-> account, client |-> client, address |-> ""]

\* A pending fetchBalance awaiting getBalance of a client for an address.
BalanceCall(client, address) ==
    [pc |-> "getBalance", sa |-> Undefined, client |-> client, address |-> address]

\* Every pending call there can be.
Calls ==
    {AddressCall(a, c) : a \in SmartAccounts, c \in {Undefined} \cup Chains}
    \cup {BalanceCall(c, a) : c \in Chains, a \in {"", "0xA1", "0xA2"}}

Pending == BagToSet(fetches)
Started(call) == fetches (+) SetToBag({call})
Settled(call) == fetches (-) SetToBag({call})
CanStart == BagCardinality(fetches) < MaxFetches

\* Lines 35-40, and the hooks' values before the wallet connects.
Init ==
    /\ isConnected = FALSE
    /\ smartAccount = Undefined
    /\ chainId \in Chains
    /\ publicClient \in {Undefined, chainId}
    /\ userAddress = ""
    /\ userInfo = Null
    /\ balance = Null
    /\ recipientAddress = ""
    /\ isSending = FALSE
    /\ transactionHash = Null
    /\ fetches = EmptyBag
    /\ sends = EmptyBag
    /\ outcome = "none"

(* ---------------------------------------------------------------------- *)
(* Account load: the effect, loadUserData, fetchBalance, fetchUserInfo     *)
(* ---------------------------------------------------------------------- *)

\* Line 108: the effect's guard.
LoadGuard(connected, account) == connected /\ account # Undefined

\* Lines 87-103: fetchUserInfo, given what getUserInfo does; it is synchronous
\* (getUserInfo() is not awaited) and never throws.
FetchUserInfo(u) == IF u \in Infos THEN u ELSE userInfo

\* Lines 105-120 up to the first await: the hooks' values change (or a
\* dependency's identity does), the component renders and the effect runs
\* loadUserData, which calls smartAccount.getAddress() when the guard passes.
\* While disconnected nothing that runs reads the handle (the guard fails,
\* the panel is not rendered): it is left Undefined.
HooksChange(connected, account, chain, client) ==
    /\ connected \/ account = Undefined
    /\ client \in {Undefined, chain}
    /\ isConnected' = connected
    /\ smartAccount' = account
    /\ chainId' = chain
    /\ publicClient' = client
    /\ IF LoadGuard(connected, account)
       THEN /\ CanStart
            /\ fetches' = Started(AddressCall(account, client))
       ELSE fetches' = fetches
    /\ UNCHANGED <<accountState, sendState>>

\* A synchronous throw of getBalance escapes fetchBalance (no try/catch
\* around it): fetchUserInfo is not called and loadUserData's catch logs.
LoadAddressSettle_Unguarded(f, resolved, b, u) ==
    LET address == AddressOf(f.sa)
    IN
    /\ f \in Pending
    /\ f.pc = "getAddress"
    /\ IF resolved
       THEN /\ userAddress' = address
            /\ IF f.client = Undefined
               THEN /\ b = "pending"
                    /\ balance' = balance
                    /\ userInfo' = FetchUserInfo(u)
                    /\ fetches' = Settled(f)
               ELSE IF b = "throws"
               THEN /\ balance' = balance
                    /\ userInfo' = userInfo
                    /\ fetches' = Settled(f)
               ELSE /\ balance' = balance
                    /\ userInfo' = FetchUserInfo(u)
                    /\ fetches' = Settled(f) (+) SetToBag({BalanceCall(f.client, address)})
       ELSE /\ b = "pending" /\ u = "empty"
            /\ UNCHANGED accountState
            /\ fetches' = Settled(f)
    /\ UNCHANGED <<hooks, sendState>>

\* Lines 110-116: getAddress settles.  It resolved: the address is stored, then
\* fetchBalance(address) runs to its await (lines 68-73; b: getBalance throws
\* at once, or is pending) and fetchUserInfo() runs whole (u: what
\* getUserInfo does); loadUserData then awaits both.  It rejected: the catch
\* of line 114 logs.
LoadAddressSettle(f, resolved, b, u) ==
    LET address == AddressOf(f.sa)
    IN
    /\ f \in Pending
    /\ f.pc = "getAddress"
    /\ IF resolved
       THEN /\ userAddress' = address
            /\ userInfo' = FetchUserInfo(u)
            /\ IF f.client = Undefined
               THEN /\ b = "pending"
                    /\ balance' = balance
                    /\ fetches' = Settled(f)
               ELSE IF b = "throws"
               THEN /\ balance' = BalanceFallback
                    /\ fetches' = Settled(f)
               ELSE /\ balance' = balance
                    /\ fetches' = Settled(f) (+) SetToBag({BalanceCall(f.client, address)})
       ELSE /\ b = "pending" /\ u = "empty"
            /\ UNCHANGED accountState
            /\ fetches' = Settled(f)
    /\ UNCHANGED <<hooks, sendState>>

\* A request-generation check: a response for an address or chain that is no
\* longer the current one is dropped.
BalanceSettle_DropStale(f, b) ==
    LET current == f.address = userAddress /\ f.client = publicClient
    IN
    /\ f \in Pending
    /\ f.pc = "getBalance"
    /\ balance' = IF ~current THEN balance
                  ELSE IF b = "resolves"
                  THEN Resolved[f.address, f.client]
                  ELSE BalanceFallback
    /\ fetches' = Settled(f)
    /\ UNCHANGED <<hooks, userAddress, userInfo, sendState>>

\* Lines 71-82: the pending getBalance of a fetch settles (b: it resolves
\* with the chain's balance, or rejects); the result is stored whatever the
\* page shows by then.
BalanceSettle(f, b) ==
    /\ f \in Pending
    /\ f.pc = "getBalance"
    /\ balance' = IF b = "resolves"
                  THEN Resolved[f.address, f.client]
                  ELSE BalanceFallback
    /\ fetches' = Settled(f)
    /\ UNCHANGED <<hooks, userAddress, userInfo, sendState>>

\* Lines 237-242 and 66-73: the refresh button (rendered while connected)
\* calls fetchBalance(userAddress) with the render's client.
RefreshClick(b) ==
    /\ isConnected
    /\ IF publicClient = Undefined
       THEN /\ b = "pending"
            /\ UNCHANGED <<balance, fetches>>
       ELSE IF b = "throws"
       THEN /\ balance' = BalanceFallback
            /\ fetches' = fetches
       ELSE /\ CanStart
            /\ balance' = balance
            /\ fetches' = Started(BalanceCall(publicClient, userAddress))
    /\ UNCHANGED <<hooks, userAddress, userInfo, sendState>>

\* A step of the account panel, getAddress settling as addressOutcomes allow.
AccountStep(addressOutcomes) ==
    \/ \E connected \in BOOLEAN, account \in {Undefined} \cup SmartAccounts,
          chain \in Chains, client \in {Undefined} \cup Chains :
          HooksChange(connected, account, chain, client)
    \/ \E f \in Calls, resolved \in addressOutcomes, b \in {"throws", "pending"},
          u \in UserInfoOutcomes :
          LoadAddressSettle(f, resolved, b, u)
    \/ \E f \in Calls, b \in {"rejects", "resolves"} : BalanceSettle(f, b)
    \/ \E b \in {"throws", "pending"} : RefreshClick(b)

\* getAddress resolves or rejects.
NextAccount == AccountStep(BOOLEAN)

\* getAddress resolves.
NextResolving == AccountStep({TRUE})

(* ---------------------------------------------------------------------- *)
(* The senders: executeTxNative and executeTxEthers                        *)
(* ---------------------------------------------------------------------- *)

\* An SDK promise of a sender that rejects.
Rejected == "<rejected>"

\* The SDK call a running executeTxNative awaits is "getFeeQuotes" or
\* "sendUserOperation"; a running executeTxEthers awaits "getSigner",
\* "sendTransaction" or "wait".  The transaction (to: recipientAddress,
\* value: 0.01) goes to the SDK and is read by nothing on the page.
NativeCalls == {"getFeeQuotes", "sendUserOperation"}
EthersCalls == {"getSigner", "sendTransaction", "wait"}

InFlight == BagToSet(sends)
Awaiting(call) == sends (+) SetToBag({call})
Resumed(call) == sends (-) SetToBag({call})
CanSend == BagCardinality(sends) < MaxSends

\* Lines 203, 269 and 278: a send button takes a click while the panel is
\* rendered, a recipient is entered and no send is shown as running.
ButtonEnabled == isConnected /\ recipientAddress # "" /\ ~isSending

\* Lines 259-264: the recipient input.
SetRecipient(value) ==
    /\ isConnected
    /\ recipientAddress' = value
    /\ UNCHANGED <<hooks, accountState, fetches, isSending, transactionHash,
                   sends, outcome>>

\* The check reads userOp alone.
HasUserOperation_IgnoresHash(quote) == quote \in {"full", "noUserOpHash"}

\* Lines 144-147: userOp && userOpHash of the sponsored variant.
HasUserOperation(quote) == quote = "full"

\* Lines 148-154 and 184: result || null.
TxHash(result) == IF result \in Hashes THEN result ELSE Null

\* The catch clears the shown hash.
Caught_ClearsHash(call) ==
    /\ outcome' = "caught"
    /\ isSending' = FALSE
    /\ transactionHash' = Null
    /\ sends' = Resumed(call)

\* The busy flag is cleared on success alone, not in a finally.
Caught_NoFinally(call) ==
    /\ outcome' = "caught"
    /\ isSending' = isSending
    /\ transactionHash' = transactionHash
    /\ sends' = Resumed(call)

\* Lines 159-163 and 185-189: an awaited call inside the try rejects; the
\* catch logs and the finally clears the busy flag.
Caught(call) ==
    /\ outcome' = "caught"
    /\ isSending' = FALSE
    /\ transactionHash' = transactionHash
    /\ sends' = Resumed(call)

\* Lines 133-164 up to the first await.  Without a smart account
\* smartAccount?.getFeeQuotes(tx) is undefined: the await resumes in the same
\* task, the else of line 156 logs and the finally clears the flag.
NativeClick ==
    /\ ButtonEnabled
    /\ IF smartAccount = Undefined
       THEN /\ isSending' = FALSE
            /\ outcome' = "noUserOp"
            /\ sends' = sends
       ELSE /\ CanSend
            /\ isSending' = TRUE
            /\ outcome' = outcome
            /\ sends' = Awaiting("getFeeQuotes")
    /\ UNCHANGED <<hooks, accountState, fetches, recipientAddress, transactionHash>>

\* Lines 143-163: getFeeQuotes settles.
NativeQuoteSettle(quote) ==
    /\ "getFeeQuotes" \in InFlight
    /\ IF quote = Rejected
       THEN Caught("getFeeQuotes")
       ELSE IF HasUserOperation(quote)
       THEN /\ sends' = Resumed("getFeeQuotes") (+) SetToBag({"sendUserOperation"})
            /\ UNCHANGED <<isSending, transactionHash, outcome>>
       ELSE /\ outcome' = "noUserOp"
            /\ isSending' = FALSE
            /\ transactionHash' = transactionHash
            /\ sends' = Resumed("getFeeQuotes")
    /\ UNCHANGED <<hooks, accountState, fetches, recipientAddress>>

\* Lines 148-163: sendUserOperation settles.
NativeSubmitSettle(result) ==
    /\ "sendUserOperation" \in InFlight
    /\ IF result = Rejected
       THEN Caught("sendUserOperation")
       ELSE /\ transactionHash' = TxHash(result)
            /\ outcome' = "sent"
            /\ isSending' = FALSE
            /\ sends' = Resumed("sendUserOperation")
    /\ UNCHANGED <<hooks, accountState, fetches, recipientAddress>>

\* Lines 52-60 and 170-173: customProvider is null without a smart account
\* and the handler returns; else it awaits getSigner, the flag untouched.
EthersClick ==
    /\ ButtonEnabled
    /\ IF smartAccount = Undefined
       THEN sends' = sends
       ELSE /\ CanSend
            /\ sends' = Awaiting("getSigner")
    /\ UNCHANGED <<hooks, accountState, fetches, recipientAddress, isSending,
                   transactionHash, outcome>>

\* Lines 173-181: getSigner settles.  Resolved: the flag is set and
\* sendTransaction is called.  Rejected: the await is outside the try, the
\* handler's promise rejects and nothing handles it.
EthersSignerSettle(resolved) ==
    /\ "getSigner" \in InFlight
    /\ IF resolved
       THEN /\ isSending' = TRUE
            /\ outcome' = outcome
            /\ sends' = Resumed("getSigner") (+) SetToBag({"sendTransaction"})
       ELSE /\ isSending' = isSending
            /\ outcome' = "unhandled"
            /\ sends' = Resumed("getSigner")
    /\ UNCHANGED <<hooks, accountState, fetches, recipientAddress, transactionHash>>

\* Lines 181-189: sendTransaction settles.
EthersSendSettle(resolved) ==
    /\ "sendTransaction" \in InFlight
    /\ IF resolved
       THEN /\ sends' = Resumed("sendTransaction") (+) SetToBag({"wait"})
            /\ UNCHANGED <<isSending, transactionHash, outcome>>
       ELSE Caught("sendTransaction")
    /\ UNCHANGED <<hooks, accountState, fetches, recipientAddress>>

\* Lines 182-189: wait settles (result: the receipt's hash; Null also
\* stands for a null receipt).
EthersWaitSettle(result) ==
    /\ "wait" \in InFlight
    /\ IF result = Rejected
       THEN Caught("wait")
       ELSE /\ transactionHash' = TxHash(result)
            /\ outcome' = "sent"
            /\ isSending' = FALSE
            /\ sends' = Resumed("wait")
    /\ UNCHANGED <<hooks, accountState, fetches, recipientAddress>>

NextSend ==
    \/ \E value \in {"", "0xR"} : SetRecipient(value)
    \/ NativeClick
    \/ \E quote \in QuoteResults \cup {Rejected} : NativeQuoteSettle(quote)
    \/ \E result \in SubmitResults \cup {Rejected} : NativeSubmitSettle(result)
    \/ EthersClick
    \/ \E resolved \in BOOLEAN : EthersSignerSettle(resolved)
    \/ \E resolved \in BOOLEAN : EthersSendSettle(resolved)
    \/ \E result \in SubmitResults \cup {Rejected} : EthersWaitSettle(result)

\* The wallet connects, disconnects, gains or loses its smart account.
WalletChange ==
    \E connected \in BOOLEAN, account \in {Undefined, "sa1"} :
        HooksChange(connected, account, chainId, publicClient)

(* ---------------------------------------------------------------------- *)
(* Specifications                                                          *)
(* ---------------------------------------------------------------------- *)

Next == NextAccount \/ NextSend

\* The whole page.
Spec == Init /\ [][Next]_vars

\* The senders, with the wallet changes they can see.  The account fetches
\* write nothing a sender reads; the loads started here stay pending.
SendSpec == Init /\ [][NextSend \/ WalletChange]_vars

\* The account panel.  The senders write nothing a fetch reads.
AccountSpec == Init /\ [][NextAccount]_vars

\* Every SDK call of the account panel settles: a pending getAddress or
\* getBalance is not left pending for ever.
CallsSettle ==
    /\ \A f \in {AddressCall(a, c) : a \in SmartAccounts, c \in {Undefined} \cup Chains} :
          WF_vars(\E b \in {"throws", "pending"}, u \in UserInfoOutcomes :
                      LoadAddressSettle(f, TRUE, b, u))
    /\ \A f \in {BalanceCall(c, a) : c \in Chains, a \in {"", "0xA1", "0xA2"}} :
          WF_vars(\E b \in {"rejects", "resolves"} : BalanceSettle(f, b))

\* The account panel when every getAddress resolves and every SDK call
\* settles.
LiveSpec == Init /\ [][NextResolving]_vars /\ CallsSettle

(* ---------------------------------------------------------------------- *)
(* Properties of the senders (checked under SendSpec)                      *)
(* ---------------------------------------------------------------------- *)

NativeInFlight == InFlight \cap NativeCalls # {}
EthersInFlight == InFlight \cap EthersCalls # {}

\* C1: for each sender, while a call of it has been invoked and has neither
\* completed nor failed, isSending is true.
C1_BusyWhileInFlight ==
    /\ NativeInFlight => isSending
    /\ EthersInFlight => isSending

\* C2: with sends started through the buttons only, at most one send is in
\* flight at any time.
C2_AtMostOneInFlight == BagCardinality(sends) <= 1

\* C3: whenever no send is in flight, isSending is false.
C3_IdleNotSending == sends = EmptyBag => ~isSending

\* A send has thrown, every send has ended.
C3_Witness == sends = EmptyBag /\ outcome = "caught" /\ ~isSending

\* C4 as stated: once transactionHash holds a hash it is never null again.
C4_HashNeverCleared == [][transactionHash # Null => transactionHash' # Null]_vars

\* C4 as amended: transactionHash changes only in the step in which
\* sendUserOperation or wait resolves, and then to the returned hash, or to
\* null when the result is null or empty; a failed send and a send without
\* a sponsored variant leave it as it is.
C4_HashChangesOnResolvedSubmitOnly ==
    [][transactionHash' # transactionHash =>
         \E result \in SubmitResults :
            /\ NativeSubmitSettle(result) \/ EthersWaitSettle(result)
            /\ transactionHash' = (IF result \in Hashes THEN result ELSE Null)]_vars

\* A hash is shown and the last send to end had thrown.
C4_Witness == transactionHash \in Hashes /\ outcome = "caught"

\* C5: when getFeeQuotes gives no sponsored variant with both userOp and
\* userOpHash (or there is no smart account), executeTxNative does not call
\* sendUserOperation, leaves transactionHash as it was, ends without an
\* escaping error and with isSending false.
C5_NoUserOperationNoSend ==
    [][(\/ \E quote \in QuoteResults \ {"full"} : NativeQuoteSettle(quote)
        \/ NativeClick /\ smartAccount = Undefined)
       => /\ CopiesIn("sendUserOperation", sends') = CopiesIn("sendUserOperation", sends)
          /\ transactionHash' = transactionHash
          /\ outcome' = "noUserOp"
          /\ ~isSending']_vars

\* A hash is shown and the last send to end found no user operation.
C5_Witness == transactionHash \in Hashes /\ outcome = "noUserOp" /\ ~isSending

\* C9: whichever call of executeTxEthers rejects (getSigner, sendTransaction,
\* wait), the handler catches it, transactionHash keeps its value and
\* isSending is false when the call ends.
C9_EthersFailuresCaught ==
    [][(\/ EthersSignerSettle(FALSE)
        \/ EthersSendSettle(FALSE)
        \/ EthersWaitSettle(Rejected))
       => /\ outcome' = "caught"
          /\ transactionHash' = transactionHash
          /\ ~isSending']_vars

(* ---------------------------------------------------------------------- *)
(* Properties of the account panel (checked under AccountSpec, LiveSpec)   *)
(* ---------------------------------------------------------------------- *)

\* C6 as stated: from a connected state with a smart account whose address
\* resolves to A, the page reaches a state with userAddress = A and a
\* non-null balance.
C6_EventuallyAddressAndBalance ==
    \A a \in SmartAccounts :
        (isConnected /\ smartAccount = a)
            ~> (userAddress = AddressOf(a) /\ balance # Null)

\* C6 as amended: once the page has entered a connected state with a smart
\* account whose address resolves to A and with a read client (its
\* loadUserData awaits getAddress), userAddress = A is reached, and a
\* non-null balance is reached; not necessarily in the same state.
C6_EventuallyAddressEventuallyBalance ==
    /\ \A a \in SmartAccounts :
          (\E c \in Chains : AddressCall(a, c) \in Pending)
              ~> (userAddress = AddressOf(a))
    /\ (\E a \in SmartAccounts, c \in Chains : AddressCall(a, c) \in Pending)
          ~> (balance # Null)

\* Connected, every fetch settled, the panel shows the account's address and
\* a balance.
C6_Witness ==
    /\ isConnected /\ smartAccount \in SmartAccounts /\ publicClient # Undefined
    /\ fetches = EmptyBag
    /\ userAddress = AddressOf(smartAccount)
    /\ balance # Null

\* C7: in loadUserData the two fetches fail independently.  When getAddress
\* has resolved, userInfo is set to what getUserInfo returns whatever
\* getBalance does (also when it throws at once), and fetchBalance runs
\* whatever getUserInfo does; when getBalance settles later, a rejection
\* leaves userInfo as set and a resolution sets balance from the result.
C7_FetchesIndependent ==
    [][\A f \in Pending :
         /\ \A b \in {"throws", "pending"}, u \in UserInfoOutcomes :
               LoadAddressSettle(f, TRUE, b, u) =>
                   /\ userInfo' = (IF u \in Infos THEN u ELSE userInfo)
                   /\ f.client # Undefined =>
                        IF b = "throws"
                        THEN balance' = "0.0"
                        ELSE CopiesIn(BalanceCall(f.client, AddressOf(f.sa)), fetches')
                               > CopiesIn(BalanceCall(f.client, AddressOf(f.sa)), fetches)
         /\ \A b \in {"rejects", "resolves"} :
               BalanceSettle(f, b) =>
                   /\ userInfo' = userInfo
                   /\ b = "resolves" =>
                        balance' = Resolved[f.address, f.client]]_vars

\* getBalance has failed (the balance is the fallback) and the profile that
\* getUserInfo returned is stored.
C7_Witness ==
    /\ fetches = EmptyBag
    /\ userAddress # ""
    /\ balance = "0.0"
    /\ userInfo \in Infos

\* C8: whenever getBalance throws or rejects, fetchBalance ends normally
\* (the call is no longer pending) and balance is the literal "0.0".
C8_BalanceFailureFallsBack ==
    [][/\ \A f \in Pending :
            (\/ \E u \in UserInfoOutcomes :
                   LoadAddressSettle(f, TRUE, "throws", u)
             \/ BalanceSettle(f, "rejects"))
            => /\ balance' = "0.0"
               /\ BagCardinality(fetches') < BagCardinality(fetches)
       /\ (RefreshClick("throws") /\ publicClient # Undefined)
            => /\ balance' = "0.0"
               /\ fetches' = fetches]_vars

\* The fallback is shown and nothing is pending.
C8_Witness == balance = "0.0" /\ fetches = EmptyBag /\ isConnected

\* A pending getBalance that is no longer the one the page asks for.
Superseded(f) == f.address # userAddress \/ f.client # publicClient

\* C10: nothing cancels a superseded fetch: a getBalance started for an
\* earlier address or chain, when it resolves, overwrites balance with its
\* value, and a getAddress started for an earlier handle overwrites
\* userAddress.
C10_StaleResponsesStored ==
    [][\A f \in Pending :
         /\ (BalanceSettle(f, "resolves") /\ Superseded(f)) =>
               balance' = Resolved[f.address, f.client]
         /\ \A b \in {"throws", "pending"}, u \in UserInfoOutcomes :
               (LoadAddressSettle(f, TRUE, b, u) /\ f.sa # smartAccount) =>
                   userAddress' = AddressOf(f.sa)]_vars

\* Every fetch has settled, the address is the current account's, and the
\* balance shown is one fetched for another address or chain.
C10_Witness ==
    /\ fetches = EmptyBag
    /\ isConnected /\ smartAccount \in SmartAccounts /\ publicClient # Undefined
    /\ userAddress = AddressOf(smartAccount)
    /\ balance \notin {Null, "0.0"}
    /\ balance # Resolved[userAddress, publicClient]

\* Every fetch has settled and the address shown is another account's.
C10_WitnessAddress ==
    /\ fetches = EmptyBag
    /\ isConnected /\ smartAccount \in SmartAccounts
    /\ userAddress \notin {"", AddressOf(smartAccount)}

====
